---- MODULE Spec2Model ----
(***************************************************************************)
(* Model of src/val-2.js: the greeting-card page script.                   *)
(*                                                                         *)
(*   - the text sequencer  (initTextFading / showNextText, timer chained)  *)
(*   - the envelope click handler with its arm and scroll-back timers      *)
(*   - the document-wide click listener that plays the background music    *)
(*   - the letter-stagger decorator (a pure string transform)              *)
(*                                                                         *)
(* Time is an integer clock in the units of setTimeout (milliseconds).     *)
(* A pending timer fires exactly when the clock reaches its due time: the  *)
(* clock never moves past a pending timer.                                 *)
(***************************************************************************)
EXTENDS Integers, Sequences, FiniteSets, Bags, TLC

(***************************************************************************)
(* Bounds of the model (not program constants).                            *)
(***************************************************************************)
MaxTexts == 3
MaxRuns == 2
MaxClicks == 2
MaxScrolls == 1
MaxPieces == 4
MaxTwicePieces == 3
MaxTime == 1500
ScrollHeight == 300
ClientHeight == 100

(***************************************************************************)
(* Program constants.                                                      *)
(***************************************************************************)
startupDelay == 500
\* Variant: a shorter dwell.
textDisplayDuration_Short == 2500 - 500
textDisplayDuration == 2500
\* Variant: no fade transition before the envelope.
textTransitionDuration_None == 800 - 800
textTransitionDuration == 800
armDelay == 1000
scrollBackDelay == 1000
bottomThreshold == 5
\* delay += 0.05, in hundredths of a second
delayIncrement == 5

\* 'No value' for a time or a position.
NoTime == 0 - 1

\* The clock's granularity for the user's events: the shortest delay.
TimeStep == startupDelay
Runs == 1..MaxRuns
TextIndexes(n) == 0..(n - 1)

VARIABLES
  now,              \* the clock
  timers,           \* bag of pending setTimeout callbacks
  numTexts,         \* texts.length
  hasOpening,       \* document.querySelector('.opening-section') # null
  hasEnvelope,      \* document.querySelector('.envelope-wrapper') # null
  hasCardContent,   \* $card.find('.envelope__card-content')[0] # undefined
  hasBgm,           \* document.getElementById("bgm") # null
  started,          \* runs of initTextFading that have been called
  phase,            \* per run: position of the sequencer's callback chain
  currentTextIndex, \* per run: the closure variable currentTextIndex
  active,           \* indexes of the texts that carry class 'active'
  openingHidden,    \* opening section carries class 'hidden'
  envelopeDisplay,  \* envelopeWrapper.style.display
  seqLog,           \* history: the sequencer's effects, in order, with times
  callbacks,        \* history, per run: timer callbacks of the sequencer that ran
  envOpen,          \* .envelope carries class 'open'
  envTossing,       \* .envelope carries class 'tossing'
  cardOpen,         \* .envelope__card carries class 'open'
  heartFadedOut,    \* fadeOut has been issued on the heart
  openClicks,       \* history: clicks on the open control
  firstClickAt,     \* history: time of the first click on the open control
  listeners,        \* number of scroll listeners on the card content
  scrollTop,        \* cardContentElement.scrollTop
  userScrolls,      \* history: scroll gestures of the user
  scrollToCalls,    \* history: scrollTo({top: 0}) calls made
  firedScrollBacks, \* history: the scroll-back timers that fired
  bottomHits,       \* history: listener calls that found the content at the bottom
  docClicks,        \* history: clicks anywhere in the document
  playCalls,        \* history: play() calls on the audio element
  errors,           \* uncaught TypeErrors, by the place that threw
  html,             \* innerHTML of an .envelope__card-text element
  sourceHtml,       \* history: the innerHTML the decorator read
  letters,          \* history: the pieces of finalHTML, in order
  decorated,        \* number of times the decorator ran on html
  originalHtml      \* history: the innerHTML the page was served with

seqVars == <<started, phase, currentTextIndex, active, openingHidden,
             envelopeDisplay, seqLog, callbacks>>
envVars == <<envOpen, envTossing, cardOpen, heartFadedOut, openClicks,
             firstClickAt>>
scrollVars == <<listeners, scrollTop, userScrolls, scrollToCalls,
                firedScrollBacks, bottomHits>>
audioVars == <<docClicks, playCalls>>
domVars == <<numTexts, hasOpening, hasEnvelope, hasCardContent, hasBgm>>
letterVars == <<html, sourceHtml, letters, decorated, originalHtml>>
vars == <<now, timers, domVars, seqVars, envVars, scrollVars, audioVars,
          errors, letterVars>>

(***************************************************************************)
(* Timers: setTimeout(callback, delay).                                    *)
(* kind names the callback, run the run of initTextFading that owns it (0  *)
(* for the envelope's timers), top is history: the scrollTop the scroll    *)
(* listener saw when it scheduled a scroll-back (NoTime otherwise).        *)
(***************************************************************************)
Timer(kind, delay, run, top) ==
  [kind |-> kind, due |-> now + delay, run |-> run, top |-> top]

SetTimeout(bag, t, copies) ==
  IF copies = 0 THEN bag ELSE bag (+) [x \in {t} |-> copies]

\* Variant: a timer stays pending after its callback has run.
ClearFired_Keep(bag, t) == bag

\* A timer that fires is gone: setTimeout runs its callback once.
ClearFired(bag, t) == bag (-) SetToBag({t})

Pending == BagToSet(timers)
PendingOf(kind) == {t \in Pending : t.kind = kind}
DueNow == {t \in Pending : t.due <= now}

RECURSIVE SumCopies(_, _)
SumCopies(bag, S) ==
  IF S = {} THEN 0
  ELSE LET t == CHOOSE x \in S : TRUE
       IN  CopiesIn(t, bag) + SumCopies(bag, S \ {t})

CountOf(kind) == SumCopies(timers, PendingOf(kind))

SetMin(S) == CHOOSE x \in S : \A y \in S : x <= y

(***************************************************************************)
(* The text sequencer: initTextFading and its closure showNextText.        *)
(***************************************************************************)
Event(ev, item, run) == [ev |-> ev, item |-> item, at |-> now, run |-> run]

\* Variant: the previous texts are not cleared.
RemoveActiveFromAll_Keep(act) == act

\* texts.forEach(text => text.classList.remove('active'))
RemoveActiveFromAll(act) == {}

\* texts[i].classList.add('active')
AddActive(act, i) == act \cup {i}

\* Variant: the class is added without the existence check.
HideOpeningSection_Unguarded(hidden) == TRUE

\* if (openingSection) openingSection.classList.add('hidden')
HideOpeningSection(hidden) == IF hasOpening THEN TRUE ELSE hidden

\* if (envelopeWrapper) envelopeWrapper.style.display = 'block'
ShowEnvelopeWrapper(display) == IF hasEnvelope THEN "block" ELSE display

\* The reveal events the history records: only mutations that happened.
RevealEvents(r, ev, present) == IF present THEN <<Event(ev, NoTime, r)>> ELSE <<>>

\* Variant: the empty-list check is missing, the timer chain always starts.
InitTextFading_NoEarlyReturn(r) ==
  /\ r \notin started
  /\ started' = started \cup {r}
  /\ currentTextIndex' = [currentTextIndex EXCEPT ![r] = 0]
  /\ timers' = SetTimeout(timers, Timer("showNext", startupDelay, r, NoTime), 1)
  /\ phase' = [phase EXCEPT ![r] = "startup"]
  /\ UNCHANGED <<now, domVars, active, envelopeDisplay, openingHidden, seqLog,
                 callbacks, envVars, scrollVars, audioVars, errors, letterVars>>

\* initTextFading(): the empty list reveals at once, otherwise the closure
\* state is created and showNextText is scheduled after the startup delay.
InitTextFading(r) ==
  /\ r \notin started
  /\ started' = started \cup {r}
  /\ IF numTexts = 0
     THEN /\ envelopeDisplay' = ShowEnvelopeWrapper(envelopeDisplay)
          /\ openingHidden' = HideOpeningSection(openingHidden)
          /\ phase' = [phase EXCEPT ![r] = "finished"]
          /\ seqLog' = seqLog \o RevealEvents(r, "show", hasEnvelope)
                              \o RevealEvents(r, "hide", hasOpening)
          /\ UNCHANGED <<timers, currentTextIndex>>
     ELSE /\ currentTextIndex' = [currentTextIndex EXCEPT ![r] = 0]
          /\ timers' = SetTimeout(timers, Timer("showNext", startupDelay, r, NoTime), 1)
          /\ phase' = [phase EXCEPT ![r] = "startup"]
          /\ UNCHANGED <<envelopeDisplay, openingHidden, seqLog>>
  /\ UNCHANGED <<now, domVars, active, callbacks, envVars, scrollVars, audioVars,
                 errors, letterVars>>

\* $(document).ready(function() { initTextFading(); })
DocumentReady == InitTextFading(1)

\* Variant: the cursor is not advanced.
NextIndex_Stay(i) == i

\* Variant: the cursor is advanced twice.
NextIndex_Skip(i) == i + 2

\* currentTextIndex++
NextIndex(i) == i + 1

\* Variant: the final branch is missing, the chain only ever shows texts.
AfterActivation_NoFinal(r, index) ==
  [kind |-> "showNext", due |-> now + 2500, run |-> r, top |-> NoTime]

\* The timer the last activation leaves behind: the next text, or the
\* transition to the envelope once every text has been shown.
AfterActivation(r, index) ==
  IF index < numTexts
  THEN Timer("showNext", textDisplayDuration, r, NoTime)
  ELSE Timer("hideOpening", textDisplayDuration, r, NoTime)

\* showNextText(), called from a timer of run r.
ShowNextText(r) ==
  \E t \in DueNow :
    /\ t.kind = "showNext" /\ t.run = r
    /\ LET i == currentTextIndex[r]
           cleared == RemoveActiveFromAll(active)
       IN  IF i < numTexts
           THEN /\ active' = AddActive(cleared, i)
                /\ currentTextIndex' = [currentTextIndex EXCEPT ![r] = NextIndex(i)]
                /\ timers' = SetTimeout(ClearFired(timers, t),
                                        AfterActivation(r, NextIndex(i)), 1)
                /\ seqLog' = Append(seqLog, Event("activate", i, r))
           ELSE /\ active' = cleared
                /\ timers' = ClearFired(timers, t)
                /\ UNCHANGED <<currentTextIndex, seqLog>>
    /\ phase' = [phase EXCEPT ![r] = "showing"]
    /\ callbacks' = [callbacks EXCEPT ![r] = @ + 1]
    /\ UNCHANGED <<now, domVars, started, openingHidden, envelopeDisplay, envVars,
                   scrollVars, audioVars, errors, letterVars>>

\* The outer timer of the final branch: hide the opening section, then
\* schedule the envelope after the fade transition.
HideOpening(r) ==
  \E t \in DueNow :
    /\ t.kind = "hideOpening" /\ t.run = r
    /\ openingHidden' = HideOpeningSection(openingHidden)
    /\ timers' = SetTimeout(ClearFired(timers, t),
                            Timer("showEnvelope", textTransitionDuration, r, NoTime), 1)
    /\ phase' = [phase EXCEPT ![r] = "revealing"]
    /\ callbacks' = [callbacks EXCEPT ![r] = @ + 1]
    /\ seqLog' = seqLog \o RevealEvents(r, "hide", hasOpening)
    /\ UNCHANGED <<now, domVars, started, currentTextIndex, active, envelopeDisplay,
                   envVars, scrollVars, audioVars, errors, letterVars>>

\* The inner timer of the final branch: show the envelope.
ShowEnvelope(r) ==
  \E t \in DueNow :
    /\ t.kind = "showEnvelope" /\ t.run = r
    /\ envelopeDisplay' = ShowEnvelopeWrapper(envelopeDisplay)
    /\ timers' = ClearFired(timers, t)
    /\ phase' = [phase EXCEPT ![r] = "finished"]
    /\ callbacks' = [callbacks EXCEPT ![r] = @ + 1]
    /\ seqLog' = seqLog \o RevealEvents(r, "show", hasEnvelope)
    /\ UNCHANGED <<now, domVars, started, currentTextIndex, active, openingHidden,
                   envVars, scrollVars, audioVars, errors, letterVars>>

(***************************************************************************)
(* The background music: document.addEventListener("click", ...).          *)
(***************************************************************************)
\* Variant: only the first click plays.
PlayBgm_Once(calls) == IF hasBgm /\ calls = 0 THEN 1 ELSE calls

\* document.getElementById("bgm").play(): one call per invocation, a
\* TypeError when the element is missing.
PlayBgm(calls) == IF hasBgm THEN calls + 1 ELSE calls

PlayErrors(errs) == IF hasBgm THEN errs ELSE errs \cup {"audio"}

\* Variant: the click also shows the envelope wrapper.
DocumentClick_Reveals ==
  /\ docClicks < MaxClicks
  /\ now <= MaxTime
  /\ docClicks' = docClicks + 1
  /\ playCalls' = PlayBgm(playCalls)
  /\ errors' = PlayErrors(errors)
  /\ envelopeDisplay' = "block"
  /\ UNCHANGED <<now, timers, domVars, started, phase, currentTextIndex, active,
                 openingHidden, seqLog, callbacks, envVars, scrollVars, letterVars>>

\* A click somewhere else in the document.
DocumentClick ==
  /\ docClicks < MaxClicks
  /\ now <= MaxTime
  /\ docClicks' = docClicks + 1
  /\ playCalls' = PlayBgm(playCalls)
  /\ errors' = PlayErrors(errors)
  /\ UNCHANGED <<now, timers, domVars, seqVars, envVars, scrollVars, letterVars>>

(***************************************************************************)
(* The envelope: $(".js-open-envelope").on("click", ...).                  *)
(***************************************************************************)
\* .removeClass("tossing")
RemoveTossing(tossing) == FALSE

\* Variant: the class is toggled instead of added.
AddOpen_Toggle(open) == ~open

\* .addClass("open")
AddOpen(open) == TRUE

\* Variant: the arm timer is set without the existence check.
ArmScrollListener_Unguarded(bag) ==
  SetTimeout(bag, [kind |-> "armScroll", due |-> now + 1000, run |-> 0, top |-> NoTime], 1)

\* if (cardContentElement) setTimeout(<attach the scroll listener>, 1000)
ArmScrollListener(bag) ==
  IF hasCardContent
  THEN SetTimeout(bag, Timer("armScroll", armDelay, 0, NoTime), 1)
  ELSE bag

\* A click on the open control. The handler does not stop propagation, so
\* the click bubbles to the document listener, which plays the music.
\* .fadeOut(300) on the heart is recorded as issued; its animation is
\* jQuery's and touches nothing else.
OpenEnvelopeClick ==
  /\ docClicks < MaxClicks
  /\ now <= MaxTime
  /\ envTossing' = RemoveTossing(envTossing)
  /\ envOpen' = AddOpen(envOpen)
  /\ cardOpen' = AddOpen(cardOpen)
  /\ heartFadedOut' = TRUE
  /\ timers' = ArmScrollListener(timers)
  /\ openClicks' = openClicks + 1
  /\ firstClickAt' = IF firstClickAt = NoTime THEN now ELSE firstClickAt
  /\ docClicks' = docClicks + 1
  /\ playCalls' = PlayBgm(playCalls)
  /\ errors' = PlayErrors(errors)
  /\ UNCHANGED <<now, domVars, seqVars, scrollVars, letterVars>>

\* Variant: a listener that is already attached is not attached again.
AddScrollListener_Dedup(n) == 1

\* addEventListener('scroll', <new closure>)
AddScrollListener(n) == n + 1

\* The arm timer: cardContentElement.addEventListener('scroll', <closure>).
\* Every click creates a new closure, so addEventListener never deduplicates.
ArmScroll ==
  \E t \in DueNow :
    /\ t.kind = "armScroll"
    /\ timers' = ClearFired(timers, t)
    /\ listeners' = IF hasCardContent THEN AddScrollListener(listeners) ELSE listeners
    /\ errors' = IF hasCardContent THEN errors ELSE errors \cup {"scrollArm"}
    /\ UNCHANGED <<now, domVars, seqVars, envVars, scrollTop, userScrolls,
                   scrollToCalls, firedScrollBacks, bottomHits, audioVars,
                   letterVars>>

\* Variant: the comparison is inverted.
IsAtBottom_Inverted(top) == ScrollHeight - top >= ClientHeight + 5

\* scrollHeight - scrollTop <= clientHeight + 5
IsAtBottom(top) == ScrollHeight - top <= ClientHeight + bottomThreshold

\* Variant: no scroll-back is scheduled while one is pending.
DispatchScroll_Debounced(bag, top) ==
  IF IsAtBottom(top) /\ ~(\E t \in BagToSet(bag) : t.kind = "scrollBack")
  THEN SetTimeout(bag, [kind |-> "scrollBack", due |-> now + 1000, run |-> 0,
                        top |-> top], listeners)
  ELSE bag

\* One scroll event at position top: every attached listener runs and, at
\* the bottom, schedules its own scroll-back.
DispatchScroll(bag, top) ==
  IF IsAtBottom(top)
  THEN SetTimeout(bag, Timer("scrollBack", scrollBackDelay, 0, top), listeners)
  ELSE bag

\* Positions the card content is scrolled to: the top, the two sides of the
\* bottom threshold, and the very bottom.
MaxScrollTop == ScrollHeight - ClientHeight
ScrollTops ==
  {0, MaxScrollTop - bottomThreshold - 1, MaxScrollTop - bottomThreshold, MaxScrollTop}

\* The listener calls that find the content at the bottom, for scroll
\* events at the positions of frames: each attached listener runs once per
\* event.
HitsOf(frames) == listeners * Len(SelectSeq(frames, IsAtBottom))

\* The user scrolls the card content to another position.
UserScroll ==
  \E p \in ScrollTops \ {scrollTop} :
    /\ hasCardContent
    /\ userScrolls < MaxScrolls
    /\ now <= MaxTime
    /\ scrollTop' = p
    /\ userScrolls' = userScrolls + 1
    /\ timers' = DispatchScroll(timers, p)
    /\ bottomHits' = bottomHits + HitsOf(<<p>>)
    /\ UNCHANGED <<now, domVars, seqVars, envVars, listeners, scrollToCalls,
                   firedScrollBacks, audioVars, errors, letterVars>>

\* The frames of scrollTo({top: 0, behavior: 'smooth'}) from position top:
\* none when already at the top, otherwise the platform's animation, which
\* may pass through an intermediate position before it arrives at 0.
SmoothFrames(top) ==
  IF top = 0 THEN {<<>>}
  ELSE {<<0>>} \cup {<<p, 0>> : p \in {q \in ScrollTops : 0 < q /\ q < top}}

RECURSIVE DispatchFrames(_, _)
DispatchFrames(bag, frames) ==
  IF frames = <<>> THEN bag
  ELSE DispatchFrames(DispatchScroll(bag, Head(frames)), Tail(frames))

\* The scroll-back timer: cardContentElement.scrollTo({top: 0, ...}); the
\* scroll events of the animation reach the attached listeners.
ScrollBack ==
  \E t \in DueNow :
    /\ t.kind = "scrollBack"
    /\ scrollToCalls' = scrollToCalls + 1
    /\ firedScrollBacks' = firedScrollBacks \cup {t}
    /\ \E frames \in SmoothFrames(scrollTop) :
         /\ timers' = DispatchFrames(ClearFired(timers, t), frames)
         /\ bottomHits' = bottomHits + HitsOf(frames)
    /\ scrollTop' = 0
    /\ UNCHANGED <<now, domVars, seqVars, envVars, listeners, userScrolls,
                   audioVars, errors, letterVars>>

(***************************************************************************)
(* The clock. Its origin is the ready event; it advances to the next       *)
(* multiple of TimeStep, or to the next pending timer when that comes      *)
(* first, and never while a callback is due.                               *)
(***************************************************************************)
Tick ==
  /\ started # {}
  /\ DueNow = {}
  /\ LET target == ((now \div TimeStep) + 1) * TimeStep
         dues == {t.due : t \in Pending}
     IN  /\ dues # {} \/ target <= MaxTime
         /\ now' = IF dues # {} /\ SetMin(dues) < target THEN SetMin(dues) ELSE target
  /\ UNCHANGED <<timers, domVars, seqVars, envVars, scrollVars, audioVars, errors,
                 letterVars>>

(***************************************************************************)
(* The letter-stagger decorator: textElements.forEach(...).                *)
(* A string is a sequence of one-character strings. Delays are counted in  *)
(* hundredths of a second; DelayText gives the text JavaScript prints for  *)
(* the running IEEE-754 sum of 0.05, which is not always the decimal one.  *)
(***************************************************************************)
Whitespace == {" ", "\t", "\n", "\r"}

\* .replace(/\r/g, "")
StripCarriageReturns(s) == SelectSeq(s, LAMBDA c : c # "\r")

\* .trim()
RECURSIVE TrimStart(_)
TrimStart(s) ==
  IF s # <<>> /\ Head(s) \in Whitespace THEN TrimStart(Tail(s)) ELSE s

RECURSIVE TrimEnd(_)
TrimEnd(s) ==
  IF s # <<>> /\ s[Len(s)] \in Whitespace
  THEN TrimEnd(SubSeq(s, 1, Len(s) - 1))
  ELSE s

Trim(s) == TrimEnd(TrimStart(s))

\* The end of the white space that starts at position j.
RECURSIVE SkipWhitespace(_, _)
SkipWhitespace(s, j) ==
  IF j <= Len(s) /\ s[j] \in Whitespace THEN SkipWhitespace(s, j + 1) ELSE j

\* /<br\s*\/?>/i at position i: the length of the match, 0 for none.
MatchBr(s, i) ==
  IF /\ i + 2 <= Len(s)
     /\ s[i] = "<"
     /\ s[i + 1] \in {"b", "B"}
     /\ s[i + 2] \in {"r", "R"}
  THEN LET j == SkipWhitespace(s, i + 3)
           k == IF j <= Len(s) /\ s[j] = "/" THEN j + 1 ELSE j
       IN  IF k <= Len(s) /\ s[k] = ">" THEN k + 1 - i ELSE 0
  ELSE 0

\* The positions from i on at which the pattern matches.
MatchesFrom(s, i) == {j \in i..Len(s) : MatchBr(s, j) > 0}

\* html.split(/<br\s*\/?>/gi): the lines between the matches, empty ones
\* kept.  The scan resumes after each match, at its leftmost successor.
RECURSIVE SplitFrom(_, _, _)
SplitFrom(s, i, lines) ==
  IF MatchesFrom(s, i) = {} THEN Append(lines, SubSeq(s, i, Len(s)))
  ELSE LET j == SetMin(MatchesFrom(s, i))
       IN  SplitFrom(s, j + MatchBr(s, j), Append(lines, SubSeq(s, i, j - 1)))

SplitLines(s) == SplitFrom(s, 1, <<>>)

Nbsp == <<"&", "n", "b", "s", "p", ";">>

\* Variant: the space is not replaced.
SafeChar_Raw(c) == <<c>>

\* char === " " ? "&nbsp;" : char
SafeChar(c) == IF c = " " THEN Nbsp ELSE <<c>>

Span(c, delay) == [tag |-> "span", delay |-> delay, content |-> SafeChar(c)]
Br == [tag |-> "br", delay |-> NoTime, content |-> <<>>]

\* [...line].forEach: one span per character, the delay growing by the
\* increment after each.
WrapLine(line, delay) ==
  [k \in 1..Len(line) |-> Span(line[k], delay + (k - 1) * delayIncrement)]

\* Variant: the delay starts again at every line.
DelayAfterLine_Reset(line, delay) == 0

\* The value of delay after a line: it is carried over to the next line.
DelayAfterLine(line, delay) == delay + Len(line) * delayIncrement

\* lines.forEach((line, i) => ...): the spans of each line, and a <br>
\* after every line but the last.
RECURSIVE BuildLetters(_, _, _)
BuildLetters(lines, i, delay) ==
  IF i > Len(lines) THEN <<>>
  ELSE WrapLine(lines[i], delay)
         \o (IF i < Len(lines) THEN <<Br>> ELSE <<>>)
         \o BuildLetters(lines, i + 1, DelayAfterLine(lines[i], delay))

\* `${delay}` after k additions of 0.05 to 0, in IEEE-754 double arithmetic.
DelayTexts ==
  << <<"0">>,
     <<"0", ".", "0", "5">>,
     <<"0", ".", "1">>,
     <<"0", ".", "1", "5", "0", "0", "0", "0", "0", "0", "0", "0", "0", "0", "0", "0", "0", "0", "2">>,
     <<"0", ".", "2">>,
     <<"0", ".", "2", "5">>,
     <<"0", ".", "3">>,
     <<"0", ".", "3", "5">>,
     <<"0", ".", "3", "9", "9", "9", "9", "9", "9", "9", "9", "9", "9", "9", "9", "9", "9", "9", "7">>,
     <<"0", ".", "4", "4", "9", "9", "9", "9", "9", "9", "9", "9", "9", "9", "9", "9", "9", "9", "6">>,
     <<"0", ".", "4", "9", "9", "9", "9", "9", "9", "9", "9", "9", "9", "9", "9", "9", "9", "9", "4">>,
     <<"0", ".", "5", "4", "9", "9", "9", "9", "9", "9", "9", "9", "9", "9", "9", "9", "9", "9">>,
     <<"0", ".", "6">>,
     <<"0", ".", "6", "5">>,
     <<"0", ".", "7", "0", "0", "0", "0", "0", "0", "0", "0", "0", "0", "0", "0", "0", "0", "1">>,
     <<"0", ".", "7", "5", "0", "0", "0", "0", "0", "0", "0", "0", "0", "0", "0", "0", "0", "1">>,
     <<"0", ".", "8", "0", "0", "0", "0", "0", "0", "0", "0", "0", "0", "0", "0", "0", "0", "2">>,
     <<"0", ".", "8", "5", "0", "0", "0", "0", "0", "0", "0", "0", "0", "0", "0", "0", "0", "2">>,
     <<"0", ".", "9", "0", "0", "0", "0", "0", "0", "0", "0", "0", "0", "0", "0", "0", "0", "2">>,
     <<"0", ".", "9", "5", "0", "0", "0", "0", "0", "0", "0", "0", "0", "0", "0", "0", "0", "3">>,
     <<"1", ".", "0", "0", "0", "0", "0", "0", "0", "0", "0", "0", "0", "0", "0", "0", "0", "2">>,
     <<"1", ".", "0", "5", "0", "0", "0", "0", "0", "0", "0", "0", "0", "0", "0", "0", "0", "3">>,
     <<"1", ".", "1", "0", "0", "0", "0", "0", "0", "0", "0", "0", "0", "0", "0", "0", "0", "3">>,
     <<"1", ".", "1", "5", "0", "0", "0", "0", "0", "0", "0", "0", "0", "0", "0", "0", "0", "4">>,
     <<"1", ".", "2", "0", "0", "0", "0", "0", "0", "0", "0", "0", "0", "0", "0", "0", "0", "4">>,
     <<"1", ".", "2", "5", "0", "0", "0", "0", "0", "0", "0", "0", "0", "0", "0", "0", "0", "4">>,
     <<"1", ".", "3", "0", "0", "0", "0", "0", "0", "0", "0", "0", "0", "0", "0", "0", "0", "5">>,
     <<"1", ".", "3", "5", "0", "0", "0", "0", "0", "0", "0", "0", "0", "0", "0", "0", "0", "5">>,
     <<"1", ".", "4", "0", "0", "0", "0", "0", "0", "0", "0", "0", "0", "0", "0", "0", "0", "6">>,
     <<"1", ".", "4", "5", "0", "0", "0", "0", "0", "0", "0", "0", "0", "0", "0", "0", "0", "6">>,
     <<"1", ".", "5", "0", "0", "0", "0", "0", "0", "0", "0", "0", "0", "0", "0", "0", "0", "7">>,
     <<"1", ".", "5", "5", "0", "0", "0", "0", "0", "0", "0", "0", "0", "0", "0", "0", "0", "7">>,
     <<"1", ".", "6", "0", "0", "0", "0", "0", "0", "0", "0", "0", "0", "0", "0", "0", "0", "8">>,
     <<"1", ".", "6", "5", "0", "0", "0", "0", "0", "0", "0", "0", "0", "0", "0", "0", "0", "8">>,
     <<"1", ".", "7", "0", "0", "0", "0", "0", "0", "0", "0", "0", "0", "0", "0", "0", "0", "8">>,
     <<"1", ".", "7", "5", "0", "0", "0", "0", "0", "0", "0", "0", "0", "0", "0", "0", "0", "9">>,
     <<"1", ".", "8", "0", "0", "0", "0", "0", "0", "0", "0", "0", "0", "0", "0", "0", "1">>,
     <<"1", ".", "8", "5", "0", "0", "0", "0", "0", "0", "0", "0", "0", "0", "0", "0", "1">>,
     <<"1", ".", "9", "0", "0", "0", "0", "0", "0", "0", "0", "0", "0", "0", "0", "0", "1">>,
     <<"1", ".", "9", "5", "0", "0", "0", "0", "0", "0", "0", "0", "0", "0", "0", "0", "1">>,
     <<"2", ".", "0", "0", "0", "0", "0", "0", "0", "0", "0", "0", "0", "0", "0", "0", "1">>,
     <<"2", ".", "0", "5", "0", "0", "0", "0", "0", "0", "0", "0", "0", "0", "0", "0", "0", "7">>,
     <<"2", ".", "1", "0", "0", "0", "0", "0", "0", "0", "0", "0", "0", "0", "0", "0", "0", "5">>,
     <<"2", ".", "1", "5", "0", "0", "0", "0", "0", "0", "0", "0", "0", "0", "0", "0", "0", "4">>,
     <<"2", ".", "2">>,
     <<"2", ".", "2", "5">>,
     <<"2", ".", "3">>,
     <<"2", ".", "3", "4", "9", "9", "9", "9", "9", "9", "9", "9", "9", "9", "9", "9", "9", "6">>,
     <<"2", ".", "3", "9", "9", "9", "9", "9", "9", "9", "9", "9", "9", "9", "9", "9", "9", "5">>,
     <<"2", ".", "4", "4", "9", "9", "9", "9", "9", "9", "9", "9", "9", "9", "9", "9", "9", "3">>,
     <<"2", ".", "4", "9", "9", "9", "9", "9", "9", "9", "9", "9", "9", "9", "9", "9", "9">>,
     <<"2", ".", "5", "4", "9", "9", "9", "9", "9", "9", "9", "9", "9", "9", "9", "9", "9">>,
     <<"2", ".", "5", "9", "9", "9", "9", "9", "9", "9", "9", "9", "9", "9", "9", "9", "8", "8">>,
     <<"2", ".", "6", "4", "9", "9", "9", "9", "9", "9", "9", "9", "9", "9", "9", "9", "8", "6">>,
     <<"2", ".", "6", "9", "9", "9", "9", "9", "9", "9", "9", "9", "9", "9", "9", "9", "8", "4">>,
     <<"2", ".", "7", "4", "9", "9", "9", "9", "9", "9", "9", "9", "9", "9", "9", "9", "8", "2">>,
     <<"2", ".", "7", "9", "9", "9", "9", "9", "9", "9", "9", "9", "9", "9", "9", "9", "8">>,
     <<"2", ".", "8", "4", "9", "9", "9", "9", "9", "9", "9", "9", "9", "9", "9", "9", "8">>,
     <<"2", ".", "8", "9", "9", "9", "9", "9", "9", "9", "9", "9", "9", "9", "9", "9", "7", "7">>,
     <<"2", ".", "9", "4", "9", "9", "9", "9", "9", "9", "9", "9", "9", "9", "9", "9", "7", "5">>,
     <<"2", ".", "9", "9", "9", "9", "9", "9", "9", "9", "9", "9", "9", "9", "9", "9", "7", "3">>,
     <<"3", ".", "0", "4", "9", "9", "9", "9", "9", "9", "9", "9", "9", "9", "9", "9", "7">>,
     <<"3", ".", "0", "9", "9", "9", "9", "9", "9", "9", "9", "9", "9", "9", "9", "9", "7">>,
     <<"3", ".", "1", "4", "9", "9", "9", "9", "9", "9", "9", "9", "9", "9", "9", "9", "7">>,
     <<"3", ".", "1", "9", "9", "9", "9", "9", "9", "9", "9", "9", "9", "9", "9", "9", "6", "6">>,
     <<"3", ".", "2", "4", "9", "9", "9", "9", "9", "9", "9", "9", "9", "9", "9", "9", "6", "4">>,
     <<"3", ".", "2", "9", "9", "9", "9", "9", "9", "9", "9", "9", "9", "9", "9", "9", "6", "3">>,
     <<"3", ".", "3", "4", "9", "9", "9", "9", "9", "9", "9", "9", "9", "9", "9", "9", "6">>,
     <<"3", ".", "3", "9", "9", "9", "9", "9", "9", "9", "9", "9", "9", "9", "9", "9", "6">>,
     <<"3", ".", "4", "4", "9", "9", "9", "9", "9", "9", "9", "9", "9", "9", "9", "9", "5", "7">>,
     <<"3", ".", "4", "9", "9", "9", "9", "9", "9", "9", "9", "9", "9", "9", "9", "9", "5", "6">>,
     <<"3", ".", "5", "4", "9", "9", "9", "9", "9", "9", "9", "9", "9", "9", "9", "9", "5", "4">>,
     <<"3", ".", "5", "9", "9", "9", "9", "9", "9", "9", "9", "9", "9", "9", "9", "9", "5">>,
     <<"3", ".", "6", "4", "9", "9", "9", "9", "9", "9", "9", "9", "9", "9", "9", "9", "5">>,
     <<"3", ".", "6", "9", "9", "9", "9", "9", "9", "9", "9", "9", "9", "9", "9", "9", "5">>,
     <<"3", ".", "7", "4", "9", "9", "9", "9", "9", "9", "9", "9", "9", "9", "9", "9", "4", "7">>,
     <<"3", ".", "7", "9", "9", "9", "9", "9", "9", "9", "9", "9", "9", "9", "9", "9", "4", "5">>,
     <<"3", ".", "8", "4", "9", "9", "9", "9", "9", "9", "9", "9", "9", "9", "9", "9", "4", "3">>,
     <<"3", ".", "8", "9", "9", "9", "9", "9", "9", "9", "9", "9", "9", "9", "9", "9", "4">>,
     <<"3", ".", "9", "4", "9", "9", "9", "9", "9", "9", "9", "9", "9", "9", "9", "9", "4">>,
     <<"3", ".", "9", "9", "9", "9", "9", "9", "9", "9", "9", "9", "9", "9", "9", "9", "4">>,
     <<"4", ".", "0", "4", "9", "9", "9", "9", "9", "9", "9", "9", "9", "9", "9", "9", "4">>,
     <<"4", ".", "0", "9", "9", "9", "9", "9", "9", "9", "9", "9", "9", "9", "9", "9", "3">>,
     <<"4", ".", "1", "4", "9", "9", "9", "9", "9", "9", "9", "9", "9", "9", "9", "9", "3">>,
     <<"4", ".", "1", "9", "9", "9", "9", "9", "9", "9", "9", "9", "9", "9", "9", "9", "3">>,
     <<"4", ".", "2", "4", "9", "9", "9", "9", "9", "9", "9", "9", "9", "9", "9", "9", "3">>,
     <<"4", ".", "2", "9", "9", "9", "9", "9", "9", "9", "9", "9", "9", "9", "9", "9", "3">>,
     <<"4", ".", "3", "4", "9", "9", "9", "9", "9", "9", "9", "9", "9", "9", "9", "9", "2", "5">>,
     <<"4", ".", "3", "9", "9", "9", "9", "9", "9", "9", "9", "9", "9", "9", "9", "9", "2">>,
     <<"4", ".", "4", "4", "9", "9", "9", "9", "9", "9", "9", "9", "9", "9", "9", "9", "2">>,
     <<"4", ".", "4", "9", "9", "9", "9", "9", "9", "9", "9", "9", "9", "9", "9", "9", "2">>,
     <<"4", ".", "5", "4", "9", "9", "9", "9", "9", "9", "9", "9", "9", "9", "9", "9", "2">>,
     <<"4", ".", "5", "9", "9", "9", "9", "9", "9", "9", "9", "9", "9", "9", "9", "9", "2">>,
     <<"4", ".", "6", "4", "9", "9", "9", "9", "9", "9", "9", "9", "9", "9", "9", "9", "1", "5">>,
     <<"4", ".", "6", "9", "9", "9", "9", "9", "9", "9", "9", "9", "9", "9", "9", "9", "1">>,
     <<"4", ".", "7", "4", "9", "9", "9", "9", "9", "9", "9", "9", "9", "9", "9", "9", "1">>,
     <<"4", ".", "7", "9", "9", "9", "9", "9", "9", "9", "9", "9", "9", "9", "9", "9", "1">>,
     <<"4", ".", "8", "4", "9", "9", "9", "9", "9", "9", "9", "9", "9", "9", "9", "9", "1">>,
     <<"4", ".", "8", "9", "9", "9", "9", "9", "9", "9", "9", "9", "9", "9", "9", "9", "1">>,
     <<"4", ".", "9", "4", "9", "9", "9", "9", "9", "9", "9", "9", "9", "9", "9", "9">>,
     <<"4", ".", "9", "9", "9", "9", "9", "9", "9", "9", "9", "9", "9", "9", "9", "9">>,
     <<"5", ".", "0", "4", "9", "9", "9", "9", "9", "9", "9", "9", "9", "9", "9", "9">>,
     <<"5", ".", "0", "9", "9", "9", "9", "9", "9", "9", "9", "9", "9", "9", "9", "9">>,
     <<"5", ".", "1", "4", "9", "9", "9", "9", "9", "9", "9", "9", "9", "9", "9", "9">>,
     <<"5", ".", "1", "9", "9", "9", "9", "9", "9", "9", "9", "9", "9", "9", "9", "8", "9", "5">>,
     <<"5", ".", "2", "4", "9", "9", "9", "9", "9", "9", "9", "9", "9", "9", "9", "8", "9">>,
     <<"5", ".", "2", "9", "9", "9", "9", "9", "9", "9", "9", "9", "9", "9", "9", "8", "9">>,
     <<"5", ".", "3", "4", "9", "9", "9", "9", "9", "9", "9", "9", "9", "9", "9", "8", "9">>,
     <<"5", ".", "3", "9", "9", "9", "9", "9", "9", "9", "9", "9", "9", "9", "9", "8", "9">>,
     <<"5", ".", "4", "4", "9", "9", "9", "9", "9", "9", "9", "9", "9", "9", "9", "8", "9">>,
     <<"5", ".", "4", "9", "9", "9", "9", "9", "9", "9", "9", "9", "9", "9", "9", "8", "8", "5">>,
     <<"5", ".", "5", "4", "9", "9", "9", "9", "9", "9", "9", "9", "9", "9", "9", "8", "8">>,
     <<"5", ".", "5", "9", "9", "9", "9", "9", "9", "9", "9", "9", "9", "9", "9", "8", "8">>,
     <<"5", ".", "6", "4", "9", "9", "9", "9", "9", "9", "9", "9", "9", "9", "9", "8", "8">>,
     <<"5", ".", "6", "9", "9", "9", "9", "9", "9", "9", "9", "9", "9", "9", "9", "8", "8">>,
     <<"5", ".", "7", "4", "9", "9", "9", "9", "9", "9", "9", "9", "9", "9", "9", "8", "8">>,
     <<"5", ".", "7", "9", "9", "9", "9", "9", "9", "9", "9", "9", "9", "9", "9", "8", "7">>,
     <<"5", ".", "8", "4", "9", "9", "9", "9", "9", "9", "9", "9", "9", "9", "9", "8", "7">>,
     <<"5", ".", "8", "9", "9", "9", "9", "9", "9", "9", "9", "9", "9", "9", "9", "8", "7">>,
     <<"5", ".", "9", "4", "9", "9", "9", "9", "9", "9", "9", "9", "9", "9", "9", "8", "7">>,
     <<"5", ".", "9", "9", "9", "9", "9", "9", "9", "9", "9", "9", "9", "9", "9", "8", "7">>,
     <<"6", ".", "0", "4", "9", "9", "9", "9", "9", "9", "9", "9", "9", "9", "9", "8", "6", "5">>,
     <<"6", ".", "0", "9", "9", "9", "9", "9", "9", "9", "9", "9", "9", "9", "9", "8", "6">>,
     <<"6", ".", "1", "4", "9", "9", "9", "9", "9", "9", "9", "9", "9", "9", "9", "8", "6">>,
     <<"6", ".", "1", "9", "9", "9", "9", "9", "9", "9", "9", "9", "9", "9", "9", "8", "6">>,
     <<"6", ".", "2", "4", "9", "9", "9", "9", "9", "9", "9", "9", "9", "9", "9", "8", "6">>,
     <<"6", ".", "2", "9", "9", "9", "9", "9", "9", "9", "9", "9", "9", "9", "9", "8", "6">>,
     <<"6", ".", "3", "4", "9", "9", "9", "9", "9", "9", "9", "9", "9", "9", "9", "8", "5">>,
     <<"6", ".", "3", "9", "9", "9", "9", "9", "9", "9", "9", "9", "9", "9", "9", "8", "5">>,
     <<"6", ".", "4", "4", "9", "9", "9", "9", "9", "9", "9", "9", "9", "9", "9", "8", "5">>,
     <<"6", ".", "4", "9", "9", "9", "9", "9", "9", "9", "9", "9", "9", "9", "9", "8", "5">>,
     <<"6", ".", "5", "4", "9", "9", "9", "9", "9", "9", "9", "9", "9", "9", "9", "8", "5">>,
     <<"6", ".", "5", "9", "9", "9", "9", "9", "9", "9", "9", "9", "9", "9", "9", "8", "4", "5">>,
     <<"6", ".", "6", "4", "9", "9", "9", "9", "9", "9", "9", "9", "9", "9", "9", "8", "4">>,
     <<"6", ".", "6", "9", "9", "9", "9", "9", "9", "9", "9", "9", "9", "9", "9", "8", "4">>,
     <<"6", ".", "7", "4", "9", "9", "9", "9", "9", "9", "9", "9", "9", "9", "9", "8", "4">>,
     <<"6", ".", "7", "9", "9", "9", "9", "9", "9", "9", "9", "9", "9", "9", "9", "8", "4">>,
     <<"6", ".", "8", "4", "9", "9", "9", "9", "9", "9", "9", "9", "9", "9", "9", "8", "4">>,
     <<"6", ".", "8", "9", "9", "9", "9", "9", "9", "9", "9", "9", "9", "9", "9", "8", "3", "5">>,
     <<"6", ".", "9", "4", "9", "9", "9", "9", "9", "9", "9", "9", "9", "9", "9", "8", "3">>,
     <<"6", ".", "9", "9", "9", "9", "9", "9", "9", "9", "9", "9", "9", "9", "9", "8", "3">>,
     <<"7", ".", "0", "4", "9", "9", "9", "9", "9", "9", "9", "9", "9", "9", "9", "8", "3">>,
     <<"7", ".", "0", "9", "9", "9", "9", "9", "9", "9", "9", "9", "9", "9", "9", "8", "3">>,
     <<"7", ".", "1", "4", "9", "9", "9", "9", "9", "9", "9", "9", "9", "9", "9", "8", "3">>,
     <<"7", ".", "1", "9", "9", "9", "9", "9", "9", "9", "9", "9", "9", "9", "9", "8", "2">>,
     <<"7", ".", "2", "4", "9", "9", "9", "9", "9", "9", "9", "9", "9", "9", "9", "8", "2">>,
     <<"7", ".", "2", "9", "9", "9", "9", "9", "9", "9", "9", "9", "9", "9", "9", "8", "2">>,
     <<"7", ".", "3", "4", "9", "9", "9", "9", "9", "9", "9", "9", "9", "9", "9", "8", "2">>,
     <<"7", ".", "3", "9", "9", "9", "9", "9", "9", "9", "9", "9", "9", "9", "9", "8", "2">>,
     <<"7", ".", "4", "4", "9", "9", "9", "9", "9", "9", "9", "9", "9", "9", "9", "8", "1", "5">>,
     <<"7", ".", "4", "9", "9", "9", "9", "9", "9", "9", "9", "9", "9", "9", "9", "8", "1">>,
     <<"7", ".", "5", "4", "9", "9", "9", "9", "9", "9", "9", "9", "9", "9", "9", "8", "1">>,
     <<"7", ".", "5", "9", "9", "9", "9", "9", "9", "9", "9", "9", "9", "9", "9", "8", "1">>,
     <<"7", ".", "6", "4", "9", "9", "9", "9", "9", "9", "9", "9", "9", "9", "9", "8", "1">>,
     <<"7", ".", "6", "9", "9", "9", "9", "9", "9", "9", "9", "9", "9", "9", "9", "8", "1">>,
     <<"7", ".", "7", "4", "9", "9", "9", "9", "9", "9", "9", "9", "9", "9", "9", "8", "0", "5">>,
     <<"7", ".", "7", "9", "9", "9", "9", "9", "9", "9", "9", "9", "9", "9", "9", "8">>,
     <<"7", ".", "8", "4", "9", "9", "9", "9", "9", "9", "9", "9", "9", "9", "9", "8">>,
     <<"7", ".", "8", "9", "9", "9", "9", "9", "9", "9", "9", "9", "9", "9", "9", "8">>,
     <<"7", ".", "9", "4", "9", "9", "9", "9", "9", "9", "9", "9", "9", "9", "9", "8">>,
     <<"7", ".", "9", "9", "9", "9", "9", "9", "9", "9", "9", "9", "9", "9", "9", "8">>,
     <<"8", ".", "0", "4", "9", "9", "9", "9", "9", "9", "9", "9", "9", "9", "9", "8">>,
     <<"8", ".", "0", "9", "9", "9", "9", "9", "9", "9", "9", "9", "9", "9", "9", "8">>,
     <<"8", ".", "1", "4", "9", "9", "9", "9", "9", "9", "9", "9", "9", "9", "9", "8">>,
     <<"8", ".", "1", "9", "9", "9", "9", "9", "9", "9", "9", "9", "9", "9", "9", "8", "2">>,
     <<"8", ".", "2", "4", "9", "9", "9", "9", "9", "9", "9", "9", "9", "9", "9", "8", "2">>,
     <<"8", ".", "2", "9", "9", "9", "9", "9", "9", "9", "9", "9", "9", "9", "9", "8", "3">>,
     <<"8", ".", "3", "4", "9", "9", "9", "9", "9", "9", "9", "9", "9", "9", "9", "8", "4">>,
     <<"8", ".", "3", "9", "9", "9", "9", "9", "9", "9", "9", "9", "9", "9", "9", "8", "4">>,
     <<"8", ".", "4", "4", "9", "9", "9", "9", "9", "9", "9", "9", "9", "9", "9", "8", "5">>,
     <<"8", ".", "4", "9", "9", "9", "9", "9", "9", "9", "9", "9", "9", "9", "9", "8", "6">>,
     <<"8", ".", "5", "4", "9", "9", "9", "9", "9", "9", "9", "9", "9", "9", "9", "8", "6">>,
     <<"8", ".", "5", "9", "9", "9", "9", "9", "9", "9", "9", "9", "9", "9", "9", "8", "7">>,
     <<"8", ".", "6", "4", "9", "9", "9", "9", "9", "9", "9", "9", "9", "9", "9", "8", "8">>,
     <<"8", ".", "6", "9", "9", "9", "9", "9", "9", "9", "9", "9", "9", "9", "9", "8", "9">>,
     <<"8", ".", "7", "4", "9", "9", "9", "9", "9", "9", "9", "9", "9", "9", "9", "9">>,
     <<"8", ".", "7", "9", "9", "9", "9", "9", "9", "9", "9", "9", "9", "9", "9", "9">>,
     <<"8", ".", "8", "4", "9", "9", "9", "9", "9", "9", "9", "9", "9", "9", "9", "9">>,
     <<"8", ".", "8", "9", "9", "9", "9", "9", "9", "9", "9", "9", "9", "9", "9", "9", "1">>,
     <<"8", ".", "9", "4", "9", "9", "9", "9", "9", "9", "9", "9", "9", "9", "9", "9", "2">>,
     <<"8", ".", "9", "9", "9", "9", "9", "9", "9", "9", "9", "9", "9", "9", "9", "9", "3">>,
     <<"9", ".", "0", "4", "9", "9", "9", "9", "9", "9", "9", "9", "9", "9", "9", "9", "4">>,
     <<"9", ".", "0", "9", "9", "9", "9", "9", "9", "9", "9", "9", "9", "9", "9", "9", "4">>,
     <<"9", ".", "1", "4", "9", "9", "9", "9", "9", "9", "9", "9", "9", "9", "9", "9", "5">>,
     <<"9", ".", "1", "9", "9", "9", "9", "9", "9", "9", "9", "9", "9", "9", "9", "9", "6">>,
     <<"9", ".", "2", "4", "9", "9", "9", "9", "9", "9", "9", "9", "9", "9", "9", "9", "6">>,
     <<"9", ".", "2", "9", "9", "9", "9", "9", "9", "9", "9", "9", "9", "9", "9", "9", "7">>,
     <<"9", ".", "3", "4", "9", "9", "9", "9", "9", "9", "9", "9", "9", "9", "9", "9", "8">>,
     <<"9", ".", "3", "9", "9", "9", "9", "9", "9", "9", "9", "9", "9", "9", "9", "9", "9">>,
     <<"9", ".", "4", "5">>,
     <<"9", ".", "5">>,
     <<"9", ".", "5", "5">>,
     <<"9", ".", "6", "0", "0", "0", "0", "0", "0", "0", "0", "0", "0", "0", "0", "0", "1">>,
     <<"9", ".", "6", "5", "0", "0", "0", "0", "0", "0", "0", "0", "0", "0", "0", "0", "2">>,
     <<"9", ".", "7", "0", "0", "0", "0", "0", "0", "0", "0", "0", "0", "0", "0", "0", "3">>,
     <<"9", ".", "7", "5", "0", "0", "0", "0", "0", "0", "0", "0", "0", "0", "0", "0", "4">>,
     <<"9", ".", "8", "0", "0", "0", "0", "0", "0", "0", "0", "0", "0", "0", "0", "0", "4">>,
     <<"9", ".", "8", "5", "0", "0", "0", "0", "0", "0", "0", "0", "0", "0", "0", "0", "5">>,
     <<"9", ".", "9", "0", "0", "0", "0", "0", "0", "0", "0", "0", "0", "0", "0", "0", "6">>,
     <<"9", ".", "9", "5", "0", "0", "0", "0", "0", "0", "0", "0", "0", "0", "0", "0", "6">> >>

DelayText(delay) == DelayTexts[(delay \div delayIncrement) + 1]

SpanOpen == <<"<", "s", "p", "a", "n", " ", "s", "t", "y", "l", "e", "=", "\"", "a", "n", "i", "m", "a", "t", "i", "o", "n", "-", "d", "e", "l", "a", "y", ":">>
SpanMid == <<"s", "\"", ">">>
SpanClose == <<"<", "/", "s", "p", "a", "n", ">">>
BrText == <<"<", "b", "r", ">">>

\* `<span style="animation-delay:${delay}s">${safeChar}</span>` or "<br>"
PieceText(piece) ==
  IF piece.tag = "br" THEN BrText
  ELSE SpanOpen \o DelayText(piece.delay) \o SpanMid \o piece.content \o SpanClose

\* The concatenation of texts[lo..hi], in order.
RECURSIVE ConcatRange(_, _, _)
ConcatRange(texts, lo, hi) ==
  IF lo > hi THEN <<>>
  ELSE IF lo = hi THEN texts[lo]
  ELSE ConcatRange(texts, lo, (lo + hi) \div 2)
         \o ConcatRange(texts, (lo + hi) \div 2 + 1, hi)

Concat(texts) == ConcatRange(texts, 1, Len(texts))

\* finalHTML: the texts of the pieces appended one after the other.
Render(pieces) == Concat([k \in 1..Len(pieces) |-> PieceText(pieces[k])])

\* The pieces of finalHTML for the innerHTML s.
LetterPieces(s) == BuildLetters(SplitLines(Trim(StripCarriageReturns(s))), 1, 0)

\* Variant: markup that already starts with a generated span is left alone.
DecoratedHtml_Guarded(s) ==
  IF Len(s) >= Len(SpanOpen) /\ SubSeq(s, 1, Len(SpanOpen)) = SpanOpen
  THEN s
  ELSE Render(LetterPieces(s))

\* el.innerHTML = finalHTML, for the innerHTML s that was read.
DecoratedHtml(s) == Render(LetterPieces(s))

\* The body of textElements.forEach for one .envelope__card-text element.
DecoratePass ==
  /\ sourceHtml' = html
  /\ letters' = LetterPieces(html)
  /\ html' = DecoratedHtml(html)
  /\ decorated' = decorated + 1
  /\ UNCHANGED <<now, timers, domVars, seqVars, envVars, scrollVars, audioVars,
                 errors, originalHtml>>

\* One pass of the decorator over one .envelope__card-text element.
DecorateLetters ==
  /\ decorated = 0
  /\ DecoratePass

\* The same statements run once more over the element, as when the script
\* is loaded a second time: they read the markup the first pass wrote.
DecorateLettersAgain ==
  /\ decorated = 1
  /\ DecoratePass

\* The markup the decorator is tried on: every concatenation of at most
\* MaxPieces of these pieces, and the text "Hi<br>Yo".
MarkupPieces ==
  { <<"H">>, <<"i">>, <<" ">>, <<"\r">>, <<"\n">>, <<"<">>,
    <<"<", "b", "r", ">">>, <<"<", "B", "R", " ", "/", ">">> }

RECURSIVE Markups(_)
Markups(n) ==
  IF n = 0 THEN {<<>>}
  ELSE Markups(n - 1) \cup {m \o x : m \in Markups(n - 1), x \in MarkupPieces}

HiBrYo == <<"H", "i", "<", "b", "r", ">", "Y", "o">>

(***************************************************************************)
(* The page: the state once the script has run, before the ready event.    *)
(***************************************************************************)
Init ==
  /\ now = 0
  /\ timers = EmptyBag
  /\ numTexts \in 0..MaxTexts
  /\ hasOpening \in BOOLEAN
  /\ hasEnvelope \in BOOLEAN
  /\ hasCardContent \in BOOLEAN
  /\ hasBgm \in BOOLEAN
  /\ started = {}
  /\ phase = [r \in Runs |-> "idle"]
  /\ currentTextIndex = [r \in Runs |-> 0]
  /\ active = {}
  /\ openingHidden = FALSE
  /\ envelopeDisplay = "none"
  /\ seqLog = <<>>
  /\ callbacks = [r \in Runs |-> 0]
  /\ envOpen = FALSE
  /\ envTossing = TRUE
  /\ cardOpen = FALSE
  /\ heartFadedOut = FALSE
  /\ openClicks = 0
  /\ firstClickAt = NoTime
  /\ listeners = 0
  /\ scrollTop = 0
  /\ userScrolls = 0
  /\ scrollToCalls = 0
  /\ firedScrollBacks = {}
  /\ bottomHits = 0
  /\ docClicks = 0
  /\ playCalls = 0
  /\ errors = {}
  /\ html = <<>>
  /\ sourceHtml = <<>>
  /\ letters = <<>>
  /\ decorated = 1
  /\ originalHtml = <<>>

SequencerStep == \E r \in Runs : ShowNextText(r) \/ HideOpening(r) \/ ShowEnvelope(r)

Next ==
  \/ DocumentReady
  \/ \E r \in Runs : ShowNextText(r)
  \/ \E r \in Runs : HideOpening(r)
  \/ \E r \in Runs : ShowEnvelope(r)
  \/ OpenEnvelopeClick
  \/ ArmScroll
  \/ UserScroll
  \/ ScrollBack
  \/ DocumentClick
  \/ Tick

Spec == Init /\ [][Next]_vars

\* The decorator alone, on every markup of the bounded set: the page before
\* the script has touched the paragraph.
LetterInit ==
  /\ now = 0
  /\ timers = EmptyBag
  /\ numTexts = 0
  /\ hasOpening = TRUE
  /\ hasEnvelope = TRUE
  /\ hasCardContent = TRUE
  /\ hasBgm = TRUE
  /\ started = {}
  /\ phase = [r \in Runs |-> "idle"]
  /\ currentTextIndex = [r \in Runs |-> 0]
  /\ active = {}
  /\ openingHidden = FALSE
  /\ envelopeDisplay = "none"
  /\ seqLog = <<>>
  /\ callbacks = [r \in Runs |-> 0]
  /\ envOpen = FALSE
  /\ envTossing = TRUE
  /\ cardOpen = FALSE
  /\ heartFadedOut = FALSE
  /\ openClicks = 0
  /\ firstClickAt = NoTime
  /\ listeners = 0
  /\ scrollTop = 0
  /\ userScrolls = 0
  /\ scrollToCalls = 0
  /\ firedScrollBacks = {}
  /\ bottomHits = 0
  /\ docClicks = 0
  /\ playCalls = 0
  /\ errors = {}
  /\ html \in Markups(MaxPieces) \cup {HiBrYo}
  /\ sourceHtml = <<>>
  /\ letters = <<>>
  /\ decorated = 0
  /\ originalHtml = html

LetterNext == DecorateLetters

LetterSpec == LetterInit /\ [][LetterNext]_vars

\* The decorator applied twice, on the markups of at most MaxTwicePieces
\* pieces.
LetterTwiceInit ==
  /\ LetterInit
  /\ html \in Markups(MaxTwicePieces)

LetterTwiceNext == DecorateLetters \/ DecorateLettersAgain

LetterTwiceSpec == LetterTwiceInit /\ [][LetterTwiceNext]_vars

\* initTextFading() called again while the run before it has not finished:
\* a new closure with a cursor of its own over the same text items.
InitTextFadingAgain ==
  \E r \in Runs \ {1} :
    /\ r - 1 \in started
    /\ phase[r - 1] # "finished"
    /\ InitTextFading(r)

\* Overlapping runs of the sequencer on one page, the user away.
ReentrantInit ==
  /\ Init
  /\ hasCardContent
  /\ hasBgm

ReentrantNext ==
  \/ DocumentReady
  \/ InitTextFadingAgain
  \/ \E r \in Runs : ShowNextText(r)
  \/ \E r \in Runs : HideOpening(r)
  \/ \E r \in Runs : ShowEnvelope(r)
  \/ Tick

ReentrantSpec == ReentrantInit /\ [][ReentrantNext]_vars

\* Every scheduled callback eventually fires and time passes; nothing is
\* assumed of the user.
FairSpec ==
  /\ Spec
  /\ WF_vars(Tick)
  /\ WF_vars(SequencerStep)
  /\ WF_vars(ArmScroll)
  /\ WF_vars(ScrollBack)

(***************************************************************************)
(* Properties.                                                             *)
(***************************************************************************)
Range(seq) == {seq[k] : k \in 1..Len(seq)}
LogTimes(ev, item) == {e.at : e \in {x \in Range(seqLog) : x.ev = ev /\ x.item = item}}
SequencerTimers == {t \in Pending : t.run # 0}
Finished == phase[1] = "finished"

C2_EmptyListRevealsAtOnce ==
  numTexts = 0 =>
    /\ SequencerTimers = {}
    /\ active = {}
    /\ \A e \in Range(seqLog) : e.ev # "activate" /\ e.at = 0
    /\ 1 \notin started =>
         /\ envelopeDisplay = "none" /\ ~openingHidden /\ phase[1] = "idle"
    /\ 1 \in started =>
         /\ Finished
         /\ hasEnvelope => envelopeDisplay = "block"
         /\ hasOpening => openingHidden

C2_Witness ==
  /\ numTexts = 0 /\ 1 \in started /\ hasEnvelope /\ hasOpening
  /\ envelopeDisplay = "block" /\ openingHidden /\ now = 0

\* C3: text i becomes active exactly at 500 + 2500*i, the opening section
\* is hidden exactly at 500 + 2500*N and the envelope wrapper is shown
\* exactly at 500 + 2500*N + 800; for three texts: 500, 3000, 5500, 8000,
\* 8800.
C3_Schedule ==
  numTexts >= 1 =>
    /\ \A i \in TextIndexes(numTexts) :
         /\ LogTimes("activate", i) \subseteq {500 + 2500 * i}
         /\ i \in active => LogTimes("activate", i) # {}
         /\ now > 500 + 2500 * i => LogTimes("activate", i) # {}
         /\ (now >= 500 + 2500 * i /\ now < 500 + 2500 * (i + 1) /\ DueNow = {})
              => active = {i}
    /\ hasOpening =>
         /\ LogTimes("hide", NoTime) \subseteq {500 + 2500 * numTexts}
         /\ openingHidden <=> LogTimes("hide", NoTime) # {}
         /\ now > 500 + 2500 * numTexts => openingHidden
    /\ hasEnvelope =>
         /\ LogTimes("show", NoTime) \subseteq {500 + 2500 * numTexts + 800}
         /\ envelopeDisplay = "block" <=> LogTimes("show", NoTime) # {}
         /\ now > 500 + 2500 * numTexts + 800 => envelopeDisplay = "block"
    /\ (numTexts = 3 /\ Finished /\ hasOpening /\ hasEnvelope) =>
         seqLog = << [ev |-> "activate", item |-> 0, at |-> 500, run |-> 1],
                     [ev |-> "activate", item |-> 1, at |-> 3000, run |-> 1],
                     [ev |-> "activate", item |-> 2, at |-> 5500, run |-> 1],
                     [ev |-> "hide", item |-> NoTime, at |-> 8000, run |-> 1],
                     [ev |-> "show", item |-> NoTime, at |-> 8800, run |-> 1] >>

C3_Witness ==
  /\ numTexts = 3 /\ now = 8800 /\ Finished
  /\ openingHidden /\ envelopeDisplay = "block"
  /\ Len(seqLog) = 5

\* C4: with every scheduled callback eventually firing and both elements
\* present, a started run eventually reaches Finished with the opening
\* section hidden and the envelope wrapper displayed; from then on the
\* sequencer has no pending timer and changes nothing.
C4_ReachesFinished ==
  /\ (1 \in started /\ hasOpening /\ hasEnvelope)
       ~> (Finished /\ openingHidden /\ envelopeDisplay = "block")
  /\ [](Finished => SequencerTimers = {})
  /\ [][Finished => UNCHANGED seqVars]_vars

C4_Witness ==
  /\ Finished /\ numTexts >= 1 /\ hasOpening /\ hasEnvelope
  /\ openingHidden /\ envelopeDisplay = "block"
  /\ SequencerTimers = {}

\* C5: once the open control has been clicked the envelope is 'open' and
\* not 'tossing' and the card is 'open', after every number of clicks; no
\* step removes 'open' or restores 'tossing'.
C5_ClickIdempotent ==
  /\ [](openClicks >= 1 => envOpen /\ ~envTossing /\ cardOpen)
  /\ [][/\ envOpen => envOpen'
        /\ cardOpen => cardOpen'
        /\ ~envTossing => ~envTossing']_vars

C5_Witness ==
  openClicks >= 2 /\ envOpen /\ ~envTossing /\ cardOpen

\* The scroll-backs scheduled or already fired.
ScrollBacksSeen == PendingOf("scrollBack") \cup firedScrollBacks

\* C6: every scroll-back was scheduled by a scroll event at which
\* scrollHeight - scrollTop <= clientHeight + 5 held, at least 1000 after a
\* click on the open control; a scroll of the user above the threshold, or
\* less than 1000 after the first click, schedules nothing.
C6_ScrollBackOnlyAtBottomAndArmed ==
  /\ [](\A t \in ScrollBacksSeen :
          /\ ScrollHeight - t.top <= ClientHeight + 5
          /\ firstClickAt # NoTime
          /\ (t.due - 1000) - firstClickAt >= 1000)
  /\ [](scrollToCalls >= 1 => firstClickAt # NoTime /\ now - firstClickAt >= 2000)
  /\ [][(/\ userScrolls' # userScrolls
         /\ \/ ScrollHeight - scrollTop' > ClientHeight + 5
            \/ firstClickAt = NoTime
            \/ now - firstClickAt < 1000)
        => timers' = timers]_vars

C6_Witness ==
  /\ scrollToCalls >= 1
  /\ \E t \in firedScrollBacks : ScrollHeight - t.top = ClientHeight + 5
  /\ openClicks >= 1 /\ listeners >= 1

Spans(pieces) == SelectSeq(pieces, LAMBDA x : x.tag = "span")

\* C7: counting the wrapped characters of the whole block from k = 0, the
\* k-th gets the delay of k increments (0, 0.05, 0.10, ...), whatever line
\* it is on, so the delays strictly increase; "Hi<br>Yo" gives H (0),
\* i (1 increment), a break, Y (2 increments), o (3 increments).
C7_DelayCumulative ==
  decorated = 1 =>
    /\ \A k \in 1..Len(Spans(letters)) : Spans(letters)[k].delay = (k - 1) * 5
    /\ \A k \in 1..(Len(Spans(letters)) - 1) :
         Spans(letters)[k].delay < Spans(letters)[k + 1].delay
    /\ sourceHtml = HiBrYo =>
         letters = << [tag |-> "span", delay |-> 0, content |-> <<"H">>],
                      [tag |-> "span", delay |-> 5, content |-> <<"i">>],
                      [tag |-> "br", delay |-> NoTime, content |-> <<>>],
                      [tag |-> "span", delay |-> 10, content |-> <<"Y">>],
                      [tag |-> "span", delay |-> 15, content |-> <<"o">>] >>

C7_Witness ==
  /\ decorated = 1
  /\ \E k \in 1..(Len(letters) - 2) :
       /\ letters[k].tag = "span" /\ letters[k + 1].tag = "br"
       /\ letters[k + 2].tag = "span" /\ letters[k + 2].delay = letters[k].delay + 5

ArmTimerAt(t) == [kind |-> "armScroll", due |-> t, run |-> 0, top |-> NoTime]

\* C9: with the card content present, each click on the open control sets
\* one arm timer due 1000 later, each arm timer attaches one listener and
\* no listener is ever removed: once the arm delays have elapsed there are
\* as many listeners as clicks, and one scroll event at the bottom
\* schedules one scroll-back per listener.
C9_OneListenerPerClick ==
  /\ [](hasCardContent =>
          /\ listeners + CountOf("armScroll") = openClicks
          /\ CountOf("armScroll") = 0 => listeners = openClicks)
  /\ [][hasCardContent /\ openClicks' # openClicks =>
          CopiesIn(ArmTimerAt(now + 1000), timers')
            = CopiesIn(ArmTimerAt(now + 1000), timers) + 1]_vars
  /\ [][listeners' # listeners =>
          /\ listeners' = listeners + 1
          /\ CopiesIn(ArmTimerAt(now), timers') = CopiesIn(ArmTimerAt(now), timers) - 1]_vars
  /\ [][userScrolls' # userScrolls /\ ScrollHeight - scrollTop' <= ClientHeight + 5 =>
          CountOf("scrollBack")' = CountOf("scrollBack") + listeners]_vars

C9_Witness ==
  /\ openClicks = 2 /\ listeners = 2 /\ CountOf("armScroll") = 0
  /\ \E t \in PendingOf("scrollBack") : CopiesIn(t, timers) = 2

\* C10: without the card content element a click sets no arm timer, no
\* listener is ever attached and no scroll-back ever happens, while the
\* click still opens the envelope and the card, stops the tossing and
\* fades the heart out, and the handler throws nothing.
C10_NoContentSkipsScrollBlock ==
  ~hasCardContent =>
    /\ CountOf("armScroll") = 0
    /\ listeners = 0
    /\ ScrollBacksSeen = {}
    /\ scrollToCalls = 0
    /\ "scrollArm" \notin errors
    /\ openClicks >= 1 => envOpen /\ ~envTossing /\ cardOpen /\ heartFadedOut

C10_Witness ==
  /\ ~hasCardContent /\ openClicks >= 1 /\ now - firstClickAt >= 1000
  /\ envOpen /\ ~envTossing /\ cardOpen /\ heartFadedOut

LogOf(ev) == SelectSeq(seqLog, LAMBDA e : e.ev = ev)

\* C11: for N >= 1 and both elements present the opening section is hidden
\* once and the envelope wrapper is displayed once, the wrapper is never
\* displayed while the section is not yet hidden, and the display comes
\* exactly 800 after the hiding.
C11_RevealOnceAndOrdered ==
  /\ [](numTexts >= 1 /\ hasOpening /\ hasEnvelope =>
          /\ Len(LogOf("hide")) <= 1
          /\ Len(LogOf("show")) <= 1
          /\ Len(LogOf("hide")) = 1 <=> openingHidden
          /\ Len(LogOf("show")) = 1 <=> envelopeDisplay = "block"
          /\ envelopeDisplay = "block" => openingHidden
          /\ Len(LogOf("show")) = 1 =>
               /\ Len(LogOf("hide")) = 1
               /\ LogOf("show")[1].at - LogOf("hide")[1].at = 800
          /\ Finished => Len(LogOf("hide")) = 1 /\ Len(LogOf("show")) = 1)
  /\ [][numTexts >= 1 =>
          /\ openingHidden => openingHidden'
          /\ envelopeDisplay = "block" => envelopeDisplay' = "block"]_vars

C11_Witness ==
  /\ numTexts >= 1 /\ hasOpening /\ hasEnvelope /\ Finished
  /\ Len(LogOf("hide")) = 1 /\ Len(LogOf("show")) = 1
  /\ LogOf("show")[1].at = LogOf("hide")[1].at + 800

\* C12: the texts are activated in index order 0, 1, ..., N-1, each once;
\* the step from one text to the next deactivates the one and activates the
\* other at once, so from the first activation on neither zero nor two
\* texts are ever active, and no text is activated again.
C12_ActivationOrder ==
  /\ [](/\ \A k \in 1..Len(LogOf("activate")) : LogOf("activate")[k].item = k - 1
        /\ Len(LogOf("activate")) <= numTexts
        /\ Finished => Len(LogOf("activate")) = numTexts
        /\ Len(LogOf("activate")) = 0 => active = {}
        /\ Len(LogOf("activate")) >= 1 => active = {Len(LogOf("activate")) - 1})
  /\ [][active' # active =>
          /\ Len(LogOf("activate"))' = Len(LogOf("activate")) + 1
          /\ active' = {Len(LogOf("activate"))}
          /\ \A i \in active : active' = {i + 1}]_vars

C12_Witness ==
  /\ numTexts = 3 /\ Len(LogOf("activate")) = 3 /\ active = {2}
  /\ phase[1] = "showing"

\* C13: the cursor starts at 0, only ever grows by one, with one activation
\* per increment, stays within 0..N, and the active text, when there is
\* one, is the text before the cursor.
C13_Cursor ==
  /\ [](/\ currentTextIndex[1] >= 0 /\ currentTextIndex[1] <= numTexts
        /\ phase[1] \in {"idle", "startup"} => currentTextIndex[1] = 0
        /\ currentTextIndex[1] = Len(LogOf("activate"))
        /\ active # {} => active = {currentTextIndex[1] - 1})
  /\ [][currentTextIndex[1]' # currentTextIndex[1] =>
          /\ currentTextIndex[1]' = currentTextIndex[1] + 1
          /\ active' = {currentTextIndex[1]}]_vars

C13_Witness ==
  /\ numTexts = 3 /\ currentTextIndex[1] = 3 /\ active = {2} /\ Finished

\* The time at which the run has reached Finished.
EndTime == IF numTexts = 0 THEN 0 ELSE 500 + 2500 * numTexts + 800

\* C14: whichever of the opening section and the envelope wrapper is
\* missing, for every N, the mutation of the missing element is skipped,
\* the one of the present element happens, the texts are activated as
\* always and the run reaches Finished instead of stopping on an error.
C14_MissingElementsTolerated ==
  /\ ~hasOpening => ~openingHidden /\ LogOf("hide") = <<>>
  /\ ~hasEnvelope => envelopeDisplay = "none" /\ LogOf("show") = <<>>
  /\ Finished =>
       /\ hasOpening => openingHidden
       /\ hasEnvelope => envelopeDisplay = "block"
       /\ Len(LogOf("activate")) = numTexts
  /\ \A k \in 1..Len(LogOf("activate")) :
       /\ LogOf("activate")[k].item = k - 1
       /\ LogOf("activate")[k].at = 500 + 2500 * (k - 1)
  /\ (1 \in started /\ now > EndTime) => Finished
  /\ (1 \in started /\ now >= EndTime /\ DueNow = {}) => Finished

C14_Witness ==
  /\ numTexts >= 1 /\ Finished /\ ~hasOpening /\ hasEnvelope
  /\ ~openingHidden /\ envelopeDisplay = "block"
  /\ Len(LogOf("activate")) = numTexts

\* The pieces between the line breaks of finalHTML, one group per line.
RECURSIVE GroupsFrom(_, _, _, _)
GroupsFrom(pieces, k, group, groups) ==
  IF k > Len(pieces) THEN Append(groups, group)
  ELSE IF pieces[k].tag = "br"
       THEN GroupsFrom(pieces, k + 1, <<>>, Append(groups, group))
       ELSE GroupsFrom(pieces, k + 1, Append(group, pieces[k]), groups)

LineGroups(pieces) == GroupsFrom(pieces, 1, <<>>, <<>>)

\* The pieces hold one span per character of each of the lines, in order,
\* a space as "&nbsp;" and any other character as itself, and one break
\* between consecutive lines only.
WrapsLines(pieces, lines) ==
  /\ Len(LineGroups(pieces)) = Len(lines)
  /\ Len(SelectSeq(pieces, LAMBDA x : x.tag = "br")) = Len(lines) - 1
  /\ \A i \in 1..Len(lines) :
       /\ Len(LineGroups(pieces)[i]) = Len(lines[i])
       /\ \A k \in 1..Len(lines[i]) :
            /\ LineGroups(pieces)[i][k].tag = "span"
            /\ LineGroups(pieces)[i][k].content =
                 (IF lines[i][k] = " " THEN <<"&", "n", "b", "s", "p", ";">>
                  ELSE <<lines[i][k]>>)

\* C15 (as stated): the output wraps the characters of the lines obtained
\* by removing the carriage returns and splitting on the line breaks.
C15_AsStated ==
  decorated = 1 =>
    WrapsLines(letters, SplitLines(StripCarriageReturns(sourceHtml)))

\* C15 (amended): the output wraps the characters of the lines obtained by
\* removing the carriage returns, trimming the white space at both ends of
\* the content and splitting on the line breaks: one span per character in
\* order, a space as "&nbsp;", and L - 1 breaks, none after the last line.
C15_StructurePreserved ==
  decorated = 1 =>
    WrapsLines(letters, SplitLines(Trim(StripCarriageReturns(sourceHtml))))

C15_Witness ==
  /\ decorated = 1
  /\ sourceHtml # <<>> /\ sourceHtml[1] \in Whitespace
  /\ Len(LineGroups(letters)) = 2
  /\ LineGroups(letters)[1] # <<>> /\ LineGroups(letters)[2] # <<>>

\* The text the pieces were made from: the character of each span (a space
\* for "&nbsp;") and "<br>" for each break.
Unwrap(pieces) ==
  Concat([k \in 1..Len(pieces) |->
            IF pieces[k].tag = "br" THEN BrText
            ELSE IF pieces[k].content = Nbsp THEN <<" ">>
            ELSE pieces[k].content])

\* The content has a character that the decorator wraps: one that is left
\* after the carriage returns, the white space at both ends and the
\* line-break markers are taken away.
HasLetters(s) ==
  \E i \in 1..Len(SplitLines(Trim(StripCarriageReturns(s)))) :
    SplitLines(Trim(StripCarriageReturns(s)))[i] # <<>>

\* After the second pass: every character of the markup the first pass
\* wrote is wrapped in a span of its own (the breaks are written again), and
\* the result differs from the result of the first pass.
DoubleWrapped ==
  /\ Unwrap(letters) = sourceHtml
  /\ Len(Spans(letters)) > Len(Spans(LetterPieces(originalHtml)))
  /\ html # sourceHtml

\* C16 (as stated): for every non-empty content, the second application
\* double-wraps the output of the first and gives a different result.
C16_AsStated ==
  decorated = 2 /\ originalHtml # <<>> => DoubleWrapped

\* C16 (amended): for every content with at least one character that the
\* decorator wraps, the second application wraps every character of the
\* span markup of the first and gives a different result; for any other
\* content (empty, white space only, line breaks only) the second
\* application gives the result of the first.  The second pass reads what
\* the first one wrote and is the same transform.
C16_NotIdempotent ==
  decorated = 2 =>
    /\ sourceHtml = Render(LetterPieces(originalHtml))
    /\ html = Render(LetterPieces(sourceHtml))
    /\ HasLetters(originalHtml) => DoubleWrapped
    /\ ~HasLetters(originalHtml) => html = sourceHtml

C16_Witness ==
  /\ decorated = 2
  /\ HasLetters(originalHtml)
  /\ \E k \in 1..Len(LetterPieces(originalHtml)) :
       LetterPieces(originalHtml)[k].content = Nbsp
  /\ Len(Spans(letters)) > 120
  /\ html # sourceHtml

\* A step of the envelope's chain or of the audio trigger.
EnvelopeOrAudioStep ==
  OpenEnvelopeClick \/ ArmScroll \/ UserScroll \/ ScrollBack \/ DocumentClick

\* The effects a single run leaves in the history, with their times, for
\* the page's number of texts and the elements it has.
ExpectedLog ==
  IF numTexts = 0
  THEN (IF hasEnvelope THEN <<[ev |-> "show", item |-> 0 - 1, at |-> 0, run |-> 1]>>
        ELSE <<>>)
       \o (IF hasOpening THEN <<[ev |-> "hide", item |-> 0 - 1, at |-> 0, run |-> 1]>>
           ELSE <<>>)
  ELSE [k \in 1..numTexts |->
          [ev |-> "activate", item |-> k - 1, at |-> 500 + 2500 * (k - 1), run |-> 1]]
       \o (IF hasOpening
           THEN <<[ev |-> "hide", item |-> 0 - 1, at |-> 500 + 2500 * numTexts,
                   run |-> 1]>>
           ELSE <<>>)
       \o (IF hasEnvelope
           THEN <<[ev |-> "show", item |-> 0 - 1, at |-> 500 + 2500 * numTexts + 800,
                   run |-> 1]>>
           ELSE <<>>)

IsPrefix(a, b) == Len(a) <= Len(b) /\ SubSeq(b, 1, Len(a)) = a

\* C17: every step of the click handler, of its arm and scroll-back timers
\* and of the audio trigger leaves the 'active' flags, the cursor, the
\* 'hidden' flag and the wrapper's display unchanged; every sequencer step
\* leaves the 'open' and 'tossing' classes, the scroll listeners and the
\* play count unchanged; so whatever clicks and scrolls are interleaved,
\* the sequencer's effects are always a prefix of the same history and its
\* outcome at the end is the same.
C17_DisjointState ==
  /\ [][EnvelopeOrAudioStep =>
          UNCHANGED <<active, currentTextIndex, openingHidden, envelopeDisplay>>]_vars
  /\ [][DocumentReady \/ SequencerStep =>
          UNCHANGED <<envOpen, envTossing, cardOpen, listeners, playCalls>>]_vars
  /\ [](IsPrefix(seqLog, ExpectedLog))
  /\ [](Finished =>
          /\ seqLog = ExpectedLog
          /\ active = (IF numTexts = 0 THEN {} ELSE {numTexts - 1})
          /\ openingHidden = hasOpening
          /\ envelopeDisplay = (IF hasEnvelope THEN "block" ELSE "none"))

C17_Witness ==
  /\ Finished
  /\ numTexts >= 2
  /\ openClicks >= 1 /\ listeners >= 1 /\ scrollToCalls >= 1 /\ playCalls >= 2
  /\ envOpen /\ ~envTossing
  /\ \E t \in firedScrollBacks : 500 < t.due /\ t.due < 3000

\* The scroll-back timers that a step adds.
NewScrollBacks ==
  {t \in BagToSet(timers') : t.kind = "scrollBack"
                               /\ CopiesIn(t, timers') > CopiesIn(t, timers)}

\* C18: each listener call that finds the content at the bottom schedules
\* a scroll-back of its own, due 1000 later; none is merged with another
\* or cancelled, so the calls made and the timers still pending add up to
\* the number of such listener calls; a scroll-back that fires calls
\* scrollTo once and moves the content to the top, wherever it is by then.
C18_ScrollBackFireAndForget ==
  /\ [](scrollToCalls + CountOf("scrollBack") = bottomHits)
  /\ [][\A t \in NewScrollBacks :
          /\ t.due = now + 1000
          /\ ScrollHeight - t.top <= ClientHeight + 5]_vars
  /\ [][bottomHits' # bottomHits =>
          SumCopies(timers', NewScrollBacks) - SumCopies(timers, NewScrollBacks)
            = bottomHits' - bottomHits]_vars
  /\ [][CountOf("scrollBack")' < CountOf("scrollBack") \/ scrollToCalls' # scrollToCalls =>
          /\ scrollToCalls' = scrollToCalls + 1
          /\ scrollTop' = 0
          /\ \E t \in PendingOf("scrollBack") : t.due = now]_vars

C18_Witness ==
  /\ listeners = 1
  /\ userScrolls = 1
  /\ bottomHits = 2
  /\ scrollToCalls = 2
  /\ scrollTop = 0

\* The pending timers of run r of the sequencer, copies counted.
PendingOfRun(r) == SumCopies(timers, {t \in Pending : t.run = r})

\* C19: in a single run the sequencer has at most one pending timer in
\* every state, every callback of it consumes that timer and leaves at most
\* one successor, and the run makes N + 2 callbacks for N >= 1 (the N
\* activations, the hide and the show) and none for N = 0.
C19_OnePendingTimer ==
  /\ [](PendingOfRun(1) <= 1)
  /\ [](callbacks[1] <= (IF numTexts = 0 THEN 0 ELSE numTexts + 2))
  /\ [](Finished => callbacks[1] = (IF numTexts = 0 THEN 0 ELSE numTexts + 2))
  /\ [](PendingOfRun(1) = 0 <=> (phase[1] \in {"idle", "finished"}))
  /\ [][callbacks' # callbacks =>
          /\ callbacks'[1] = callbacks[1] + 1
          /\ PendingOfRun(1) = 1
          /\ \A t \in Pending : t.run = 1 => t.due = now /\ t \notin BagToSet(timers')]_vars

C19_Witness ==
  /\ Finished
  /\ numTexts = 3
  /\ callbacks[1] = 5
  /\ openClicks >= 1
  /\ scrollToCalls >= 1

\* The runs of initTextFading that have started and not finished.
RunningRuns == {r \in started : phase[r] # "finished"}

\* C20: with overlapping runs on the same items, under every interleaving
\* of their callbacks at most one item is active in every state: each
\* activation leaves exactly the item it activated, the one at the cursor
\* of the run that made it, whatever the other run had activated.
C20_OverlappingRuns ==
  /\ [](Cardinality(active) <= 1)
  /\ [][\A r \in Runs :
          currentTextIndex'[r] # currentTextIndex[r] /\ r \in started =>
            /\ active' = {currentTextIndex[r]}
            /\ \A q \in Runs \ {r} : currentTextIndex'[q] = currentTextIndex[q]]_vars
  /\ [][active' # active => \E r \in started :
          currentTextIndex'[r] = currentTextIndex[r] + 1]_vars

\* The active index goes down: run 2 activates item 0 after run 1 had
\* activated a later item, while both are running.
C20_Witness ==
  /\ Cardinality(RunningRuns) = 2
  /\ Cardinality(active) = 1
  /\ \E k \in 1..(Len(seqLog) - 1) :
       /\ seqLog[k].ev = "activate" /\ seqLog[k + 1].ev = "activate"
       /\ seqLog[k].run # seqLog[k + 1].run
       /\ seqLog[k + 1].item < seqLog[k].item
       /\ seqLog[k].at = seqLog[k + 1].at

====
